---------------------------- MODULE Spec2Model ----------------------------
(***************************************************************************)
(* Fair-division engine of optamam (src/app/core/fair_division.py).        *)
(*                                                                         *)
(* One request is followed from its call to its return.  A request is      *)
(* either a direct call of solve_fair_division_mixed (as the unit tests    *)
(* make it) or a call of calculate_fair_division, which validates, builds  *)
(* the two valuation matrices and calls solve_fair_division_mixed with the *)
(* default scale.                                                          *)
(* A request can also be a body posted to /calculate                       *)
(* (src/app/api/routes/calculator.py), which the request dataclasses of    *)
(* src/app/models/calculator.py accept or refuse before the handler calls  *)
(* calculate_fair_division.  A further specification runs several calls   *)
(* of calculate_fair_division at once, each in its own frame.              *)
(*                                                                         *)
(* Numbers.  Valuations are Python floats; they are held here as integers  *)
(* counting hundredths (Unit = 100 per whole), which is the resolution of  *)
(* the 0.01 tolerance of the normalisation check.  Fractions x / scale and *)
(* satisfactions are held as pairs <<numerator, denominator>>; rounding of *)
(* IEEE doubles is not modelled.                                           *)
(*                                                                         *)
(* The CP-SAT solver is external.  Solve(model) is modelled by its         *)
(* contract: OPTIMAL with any assignment that satisfies the constraints    *)
(* and maximises the objective, FEASIBLE with any assignment satisfying    *)
(* the constraints, INFEASIBLE / MODEL_INVALID when there is none, UNKNOWN *)
(* when the time limit is hit.                                             *)
(***************************************************************************)
EXTENDS Integers, Sequences, FiniteSets, TLC

\* ------------------------------------------------------------------ bounds
\* Largest valuation table explored: people * items <= MaxCells.
MaxCells == 4
\* Largest scale passed by a direct caller of solve_fair_division_mixed.
MaxScale == 2
\* Largest body posted to /calculate: items and people each, and their product.
MaxDeclared == 2
\* Longest valuation list of a body posted to /calculate.
MaxValuations == 2
\* Most people in the disjoint-preferences scenario.
MaxAgents == 3
\* Calls of calculate_fair_division that run at the same time.
MaxCalls == 2
\* Largest valuation table of the requests followed to their end under fairness.
LiveCells == 2
\* Cap of the count of solver.Solve calls in one request.
MaxSolverCalls == 2

\* ------------------------------------------------------- program constants
\* Hundredths per whole: the tolerance 0.01 of the normalisation check.
Unit == 100
\* scale: int = 100
DefaultScale == 100

\* Valuations a direct caller passes (hundredths): 0, 1, 1.5, 2.
SolveVals == {0, 100, 150, 200}
\* Valuations a caller of calculate_fair_division passes (hundredths):
\* -50, 0, 50, 50.01, 100.
CalcVals == {-5000, 0, 5000, 5001, 10000}

PersonNames == <<"Ann", "Bob", "Cat", "Dan", "Eve", "Fay">>
ItemNames == <<"Car", "Cash", "House", "Land", "Piano", "Ring">>

\* ----------------------------------------------------------------- helpers
RECURSIVE SumTo(_, _)
\* sum(f[1..n])
SumTo(f, n) == IF n = 0 THEN 0 ELSE f[n] + SumTo(f, n - 1)

\* Python sum() of a list
PySum(s) == SumTo(s, Len(s))

\* Python max() / min() of a non-empty collection of integers
PyMax(S) == CHOOSE m \in S : \A k \in S : k <= m
PyMin(S) == CHOOSE m \in S : \A k \in S : m <= k

Abs(a) == IF a >= 0 THEN a ELSE -a

\* Division rounding towards zero (Python int() of a float, CP-SAT division)
TruncDiv(a, b) == IF a >= 0 THEN a \div b ELSE -((-a) \div b)

\* An integer conversion into a one-bit integer, which wraps.
WrappingInt(v) == TruncDiv(v, Unit) % 2

\* int(val) of a valuation given in hundredths: the whole part
PyInt(v) == TruncDiv(v, Unit)

\* [[int(val) for val in row] for row in matrix]
IntMatrix(m) == [i \in 1..Len(m) |-> [j \in 1..Len(m[i]) |-> PyInt(m[i][j])]]

Range(s) == {s[k] : k \in 1..Len(s)}

\* ------------------------------------------------------------------- state
VARIABLES
    entry,               \* what the caller called: "solve", "calc" or "api"
    pc,                  \* position in the request
    items,               \* calculate_fair_division: list of {name, is_divisible}
    people,              \* calculate_fair_division: list of names
    valuations,          \* calculate_fair_division: item name -> person -> <<value>>, <<>> if absent
    arg_indivisible,     \* solve_fair_division_mixed: indivisible_matrix as passed
    arg_divisible,       \* solve_fair_division_mixed: divisible_matrix as passed
    scale,               \* solve_fair_division_mixed: scale
    indivisible_matrix,  \* local, after the conversion to integers
    divisible_matrix,    \* local, after the conversion to integers
    model_built,         \* a CpModel was constructed
    solver_calls,        \* number of solver.Solve(model) calls
    status,              \* status returned by solver.Solve
    solution,            \* variable values held by the solver
    solve_phase,         \* solve_fair_division_mixed: "idle", "active" or "returned"
    ret,                 \* what solve_fair_division_mixed returned
    outcome,             \* what calculate_fair_division returned or raised
    request,             \* POST /calculate: the body, then the FairDivisionRequest
    response,            \* POST /calculate: what the caller receives
    calls,               \* concurrent calls: call number -> its frame
    models               \* concurrent calls: the CpModel objects in memory

vars == <<entry, pc, items, people, valuations, arg_indivisible, arg_divisible, scale,
          indivisible_matrix, divisible_matrix, model_built, solver_calls, status,
          solution, solve_phase, ret, outcome, request, response, calls, models>>

\* What a single request leaves alone besides the engine's variables.
NoRequest == [items |-> << >>, people |-> << >>, valuations |-> << >>]
NoResponse == [kind |-> "none"]

\* ------------------------------------------------------------------ inputs
\* All p x n matrices over V; a matrix without columns is the empty list, as
\* the callers build it.
Matrices(p, n, V) == IF n = 0 \/ p = 0 THEN {<< >>} ELSE [1..p -> [1..n -> V]]

NameSet(names, n) == {names[k] : k \in 1..n}

\* Lists of n items, named in order, with every choice of divisibility.
ItemLists(n) == {[k \in 1..n |-> [name |-> ItemNames[k], is_divisible |-> f[k]]] :
                    f \in [1..n -> BOOLEAN]}

PeopleList(p) == [k \in 1..p |-> PersonNames[k]]

\* Valuation dictionaries over n items and p people, cells possibly absent.
ValuationDicts(n, p) ==
    [NameSet(ItemNames, n) -> [NameSet(PersonNames, p) -> {<< >>} \cup {<<v>> : v \in CalcVals}]]

NoSolution == [y |-> << >>, x |-> << >>]
NoneRet == [is_none |-> TRUE, allocation |-> << >>, worst_satisfaction |-> <<0, 1>>]
NoOutcome == [kind |-> "none"]

\* A test calls solve_fair_division_mixed(indivisible_matrix, divisible_matrix[, scale]).
InitSolveUpTo(cells) ==
    /\ entry = "solve"
    /\ pc = "solve_start"
    /\ solve_phase = "active"
    /\ items = << >> /\ people = << >> /\ valuations = << >>
    /\ \E p \in 0..cells, nI \in 0..cells, nD \in 0..cells :
          /\ p * (nI + nD) <= cells
          /\ (p = 0) <=> (nI + nD = 0)
          /\ arg_indivisible \in Matrices(p, nI, SolveVals)
          /\ arg_divisible \in Matrices(p, nD, SolveVals)
    /\ scale \in 1..MaxScale

\* A caller calls calculate_fair_division(items, people, valuations).
InitCalcUpTo(cells) ==
    /\ entry = "calc"
    /\ pc = "calc_start"
    /\ solve_phase = "idle"
    /\ \E p \in 0..cells, n \in 0..cells :
          /\ p * n <= cells
          /\ items \in ItemLists(n)
          /\ people = PeopleList(p)
          /\ valuations \in ValuationDicts(n, p)
    /\ arg_indivisible = << >> /\ arg_divisible = << >>
    /\ scale = DefaultScale

InitSolve == InitSolveUpTo(MaxCells)
InitCalc == InitCalcUpTo(MaxCells)

\* The locals of solve_fair_division_mixed and calculate_fair_division before
\* they run.
FreshLocals ==
    /\ indivisible_matrix = << >>
    /\ divisible_matrix = << >>
    /\ model_built = FALSE
    /\ solver_calls = 0
    /\ status = "NONE"
    /\ solution = NoSolution
    /\ ret = NoneRet
    /\ outcome = NoOutcome

Init ==
    /\ InitSolve \/ InitCalc
    /\ FreshLocals
    /\ request = NoRequest
    /\ response = NoResponse
    /\ calls = << >>
    /\ models = << >>

\* ------------------------------------------- solve_fair_division_mixed: model
\* Dimensions, from the converted matrices I (indivisible) and D (divisible).
num_people(I, D) == IF I # << >> THEN Len(I) ELSE Len(D)
num_indivisible(I) == IF I # << >> THEN Len(I[1]) ELSE 0
num_divisible(D) == IF D # << >> THEN Len(D[1]) ELSE 0

\* The statements between the input check and solver.Solve raise (and the
\* except clause returns (None, None)) when max() is given no person, or when
\* a matrix is indexed past its end: max_possible reads indivisible_matrix[i]
\* for every person, also when the indivisible matrix is the empty list.
BuildRaises(I, D) ==
    \/ num_people(I, D) = 0
    \/ Len(I) < num_people(I, D)
    \/ D # << >> /\ Len(D) < num_people(I, D)

\* max(max(row) for row in divisible_matrix) if divisible_matrix else 0
MaxDivisibleValue(D) ==
    IF D # << >> THEN PyMax({PyMax(Range(D[i])) : i \in 1..Len(D)}) ELSE 0

\* max over people of sum(indivisible row) [+ sum(divisible row)]
max_possible(I, D) ==
    PyMax({PySum(I[i]) + (IF D # << >> THEN PySum(D[i]) ELSE 0) : i \in 1..num_people(I, D)})

\* Upper bound of tot_i
TotUpper(I, D, i) == PySum(I[i]) + MaxDivisibleValue(D)

\* A model that gives every indivisible item to the person listed first.
FirstListedOwner(col) == PySum(col) = 1 /\ col[1] = 1

\* A model that lets an indivisible item stay without an owner.
AtMostOneOwner(col) == PySum(col) <= 1

\* sum(indivisible_vars[i, j] for i in range(num_people)) == 1, for one item:
\* col[i] is the indicator of person i for that item.
ExactlyOneOwner(col) == PySum(col) = 1

\* A model that lets part of a divisible item stay unallocated.
PartlyAllocated(col, sc) == PySum(col) <= sc

\* sum(divisible_vars[i, j] for i in range(num_people)) == scale, for one item:
\* col[i] is the share of person i of that item.
FullyAllocated(col, sc) == PySum(col) = sc

\* A model whose share variables are declared one step too wide on each side.
SignedShareDomain(sc) == (0 - 1)..(sc + 1)

\* model.NewIntVar(0, scale, ...): the domain of a share variable
ShareDomain(sc) == 0..sc

\* model.NewBoolVar(...): the domain of an indicator variable
IndicatorDomain == {0, 1}

\* Values of the decision variables: s.y[j][i] is indivisible_vars[i, j] and
\* s.x[j][i] is divisible_vars[i, j], each within its declared domain and
\* meeting the per-item constraints.
Assignments(I, D, sc) ==
    LET p == num_people(I, D)
        ycols == {c \in [1..p -> IndicatorDomain] : ExactlyOneOwner(c)}
        xcols == {c \in [1..p -> ShareDomain(sc)] : FullyAllocated(c, sc)}
    IN  {[y |-> ys, x |-> xs] : ys \in [1..num_indivisible(I) -> ycols],
                                xs \in [1..num_divisible(D) -> xcols]}

\* indiv_sum of person i
indiv_sum(I, s, i) ==
    SumTo([j \in 1..num_indivisible(I) |-> I[i][j] * s.y[j][i]], num_indivisible(I))

\* div_contrib of person i
div_contrib(D, s, i) ==
    SumTo([j \in 1..num_divisible(D) |-> D[i][j] * s.x[j][i]], num_divisible(D))

\* A division that rounds up.
RoundedUpDiv(D, sc, s, i) ==
    IF num_divisible(D) > 0 THEN (div_contrib(D, s, i) + sc - 1) \div sc ELSE 0

\* scaled_div of person i: AddDivisionEquality(scaled_div, div_contrib, scale)
scaled_div(D, sc, s, i) ==
    IF num_divisible(D) > 0 THEN TruncDiv(div_contrib(D, s, i), sc) ELSE 0

\* tot_i == indiv_sum + scaled_div
tot(I, D, sc, s, i) == indiv_sum(I, s, i) + scaled_div(D, sc, s, i)

\* The per-person constraints: scaled_div and tot lie in their declared
\* domains, and some value of worst_satisfaction in [0, max_possible] is
\* at most every tot.
SatisfactionConstraints(I, D, sc, s) ==
    /\ max_possible(I, D) >= 0
    /\ \A i \in 1..num_people(I, D) :
          /\ num_divisible(D) > 0 =>
                scaled_div(D, sc, s, i) \in 0..MaxDivisibleValue(D)
          /\ tot(I, D, sc, s, i) \in 0..TotUpper(I, D, i)

\* The assignments that satisfy the model.
Feasible(I, D, sc) == {s \in Assignments(I, D, sc) : SatisfactionConstraints(I, D, sc, s)}

\* model.Maximize(worst_satisfaction): the largest value the objective can
\* take with the other variables as in s.
Objective(I, D, sc, s) ==
    PyMin({max_possible(I, D)} \cup {tot(I, D, sc, s, i) : i \in 1..num_people(I, D)})

\* A solver that reports OPTIMAL for the first assignment it finds.
AnyFeasible(I, D, sc) == Feasible(I, D, sc)

\* The assignments an OPTIMAL status can come with.
Optimal(I, D, sc) ==
    LET F == Feasible(I, D, sc)
        best == PyMax({Objective(I, D, sc, s) : s \in F})
    IN  {s \in F : Objective(I, D, sc, s) = best}

\* The values the model's worst_satisfaction variable can have in a solution
\* with the other variables as in s: at most every tot and within its domain;
\* with status OPTIMAL the largest such value.
WorstValues(I, D, sc, s, st) ==
    IF st = "OPTIMAL" THEN {Objective(I, D, sc, s)} ELSE 0..Objective(I, D, sc, s)

\* Some variable is declared with an empty domain (upper bound below 0).
EmptyDomain(I, D) ==
    \/ max_possible(I, D) < 0
    \/ num_divisible(D) > 0 /\ MaxDivisibleValue(D) < 0
    \/ \E i \in 1..num_people(I, D) : TotUpper(I, D, i) < 0

\* ----------------------------------------- solve_fair_division_mixed: result
\* person_allocation: 'indivisible' -> list of indicator values (only when
\* there are indivisible items), 'divisible' -> list of fractions
\* Value / scale, each held as <<numerator, denominator>> (only when there are
\* divisible items).
PersonAllocation(I, D, sc, s, i) ==
    LET keys == (IF num_indivisible(I) > 0 THEN {"indivisible"} ELSE {}) \cup
                (IF num_divisible(D) > 0 THEN {"divisible"} ELSE {})
    IN  [k \in keys |->
            IF k = "indivisible"
            THEN [j \in 1..num_indivisible(I) |-> s.y[j][i]]
            ELSE [j \in 1..num_divisible(D) |-> <<s.x[j][i], sc>>]]

\* received_value of person i, as <<numerator, denominator>>: the integer
\* valuations of the indivisible items whose indicator is 1, plus
\* int(valuation) * fraction for every divisible item.
received_value(I, D, sc, s, i) ==
    LET ind == SumTo([j \in 1..num_indivisible(I) |->
                         IF s.y[j][i] = 1 THEN I[i][j] ELSE 0], num_indivisible(I))
    IN  IF num_divisible(D) > 0
        THEN <<sc * ind + div_contrib(D, s, i), sc>>
        ELSE <<ind, 1>>

\* A routine that reports the value of the model's worst_satisfaction variable.
ModelWorst(I, D, sc, s) == <<Objective(I, D, sc, s), 1>>

\* min(actual_satisfactions); all entries share one denominator
MinSatisfaction(I, D, sc, s) ==
    LET sats == {received_value(I, D, sc, s, i) : i \in 1..num_people(I, D)}
    IN  CHOOSE m \in sats : \A r \in sats : m[1] <= r[1]

\* The pair (allocation, worst_satisfaction) returned for solver values s.
Extracted(I, D, sc, s) ==
    [is_none |-> FALSE,
     allocation |-> [i \in 1..num_people(I, D) |-> PersonAllocation(I, D, sc, s, i)],
     worst_satisfaction |-> MinSatisfaction(I, D, sc, s)]

\* Where control goes when solve_fair_division_mixed returns.
ReturnPc == IF entry = "solve" THEN "done" ELSE "calc_check"

\* An input check that tests the divisible matrix the wrong way round.
BothEmptySlip(I, D) == I = << >> /\ D # << >>

\* not indivisible_matrix and not divisible_matrix
BothEmpty(I, D) == I = << >> /\ D = << >>

\* Lines 118-121: both matrices empty -> (None, None).
SolveValidate ==
    /\ pc = "solve_start"
    /\ UNCHANGED <<request, response, calls, models>>
    /\ IF BothEmpty(arg_indivisible, arg_divisible)
       THEN /\ ret' = NoneRet
            /\ solve_phase' = "returned"
            /\ pc' = ReturnPc
       ELSE /\ pc' = "solve_build"
            /\ UNCHANGED <<ret, solve_phase>>
    /\ UNCHANGED <<entry, items, people, valuations, arg_indivisible, arg_divisible, scale,
                   indivisible_matrix, divisible_matrix, model_built, solver_calls,
                   status, solution, outcome>>

\* Lines 123-208: integer conversion, CpModel(), variables, constraints and
\* objective; an exception on the way is caught and (None, None) returned.
SolveBuild ==
    /\ pc = "solve_build"
    /\ UNCHANGED <<request, response, calls, models>>
    /\ indivisible_matrix' = IntMatrix(arg_indivisible)
    /\ divisible_matrix' = IntMatrix(arg_divisible)
    /\ model_built' = TRUE
    /\ IF BuildRaises(indivisible_matrix', divisible_matrix')
       THEN /\ ret' = NoneRet
            /\ solve_phase' = "returned"
            /\ pc' = ReturnPc
       ELSE /\ pc' = "solve_run"
            /\ UNCHANGED <<ret, solve_phase>>
    /\ UNCHANGED <<entry, items, people, valuations, arg_indivisible, arg_divisible, scale,
                   solver_calls, status, solution, outcome>>

\* Lines 210-215: one call of solver.Solve(model) under the 30 s limit.
SolverResults(I, D, sc) ==
    {[status |-> "OPTIMAL", solution |-> s] : s \in Optimal(I, D, sc)} \cup
    {[status |-> "FEASIBLE", solution |-> s] : s \in Feasible(I, D, sc)} \cup
    (IF Feasible(I, D, sc) = {}
        THEN {[status |-> "INFEASIBLE", solution |-> NoSolution]} ELSE {}) \cup
    (IF EmptyDomain(I, D)
        THEN {[status |-> "MODEL_INVALID", solution |-> NoSolution]} ELSE {}) \cup
    {[status |-> "UNKNOWN", solution |-> NoSolution]}

SolveRun ==
    /\ pc = "solve_run"
    /\ solver_calls < MaxSolverCalls
    /\ UNCHANGED <<request, response, calls, models>>
    /\ solver_calls' = solver_calls + 1
    /\ \E r \in SolverResults(indivisible_matrix, divisible_matrix, scale) :
          /\ status' = r.status
          /\ solution' = r.solution
    /\ pc' = "solve_extract"
    /\ UNCHANGED <<entry, items, people, valuations, arg_indivisible, arg_divisible, scale,
                   indivisible_matrix, divisible_matrix, model_built, solve_phase, ret,
                   outcome>>

\* A status test that accepts only a proven optimum.
OptimalOnly(st) == st = "OPTIMAL"

\* status == cp_model.OPTIMAL or status == cp_model.FEASIBLE
HasSolution(st) == st \in {"OPTIMAL", "FEASIBLE"}

\* A routine that calls the solver again when the time limit was hit.
RetryOnTimeout(st) == IF st = "UNKNOWN" THEN "solve_run" ELSE ReturnPc

\* Lines 217-268: both branches end in a return statement, whatever the status.
AfterSolve(st) == ReturnPc

\* Lines 217-268: extract the allocation and the actual satisfactions, or
\* return (None, None) for any other status.
SolveExtract ==
    /\ pc = "solve_extract"
    /\ UNCHANGED <<request, response, calls, models>>
    /\ ret' = IF HasSolution(status)
              THEN Extracted(indivisible_matrix, divisible_matrix, scale, solution)
              ELSE NoneRet
    /\ solve_phase' = IF AfterSolve(status) = "solve_run" THEN solve_phase ELSE "returned"
    /\ pc' = AfterSolve(status)
    /\ UNCHANGED <<entry, items, people, valuations, arg_indivisible, arg_divisible, scale,
                   indivisible_matrix, divisible_matrix, model_built, solver_calls,
                   status, solution, outcome>>

\* --------------------------------------------------- calculate_fair_division
\* valuations[item['name']][person] for every item, in order
PersonCells(its, vals, person) == [k \in 1..Len(its) |-> vals[its[k].name][person]]

\* Line 40: the lookup of an absent key raises KeyError.
RaisesKeyError(its, vals, person) ==
    \E k \in 1..Len(its) : PersonCells(its, vals, person)[k] = << >>

\* total_value = sum(valuations[item['name']][person] for item in items)
total_value(its, vals, person) ==
    SumTo([k \in 1..Len(its) |-> PersonCells(its, vals, person)[k][1]], Len(its))

\* A normalisation check with a tolerance of 1 instead of 0.01.
SumOutOfWideTolerance(total) == Abs(total - 100 * Unit) > Unit

\* abs(total_value - 100) > 0.01, in hundredths
SumOutOfTolerance(total) == 100 * Abs(total - 100 * Unit) > Unit

\* Where control goes when calculate_fair_division returns or raises.
CalcReturnPc == IF entry = "api" THEN "api_respond" ELSE "done"

\* What the validation loop does at person number k: "KeyError", "ValueError"
\* or "ok".
ValidatePerson(its, ppl, vals, k) ==
    IF RaisesKeyError(its, vals, ppl[k]) THEN "KeyError"
    ELSE IF SumOutOfTolerance(total_value(its, vals, ppl[k])) THEN "ValueError"
    ELSE "ok"

\* Lines 37-42: the first person, in list order, whose check raises ends the call.
CalcValidate ==
    /\ pc = "calc_start"
    /\ UNCHANGED <<request, response, calls, models>>
    /\ LET bad == {k \in 1..Len(people) : ValidatePerson(items, people, valuations, k) # "ok"}
       IN  IF bad # {}
           THEN LET k == PyMin(bad)
                    type == ValidatePerson(items, people, valuations, k)
                IN  /\ outcome' = [kind |-> "raise", type |-> type,
                                   message |-> IF type = "ValueError"
                                               THEN "must sum to 100" ELSE "missing key"]
                    /\ pc' = CalcReturnPc
           ELSE /\ pc' = "calc_matrices"
                /\ UNCHANGED outcome
    /\ UNCHANGED <<entry, items, people, valuations, arg_indivisible, arg_divisible, scale,
                   indivisible_matrix, divisible_matrix, model_built, solver_calls,
                   status, solution, solve_phase, ret>>

\* [item for item in items if item['is_divisible']] and its complement
divisible_items(its) == SelectSeq(its, LAMBDA it : it.is_divisible)
indivisible_items(its) == SelectSeq(its, LAMBDA it : ~it.is_divisible)

\* One row per person over the items of one kind; no row at all when there is
\* no item of that kind.
BuildMatrix(kind_items, ppl, vals) ==
    IF Len(kind_items) = 0 THEN << >>
    ELSE [i \in 1..Len(ppl) |->
            [j \in 1..Len(kind_items) |-> vals[kind_items[j].name][ppl[i]][1]]]

\* Lines 44-64: split the items, build the matrices, call the solver routine
\* with the default scale.
CalcCall ==
    /\ pc = "calc_matrices"
    /\ UNCHANGED <<request, response, calls, models>>
    /\ arg_indivisible' = BuildMatrix(indivisible_items(items), people, valuations)
    /\ arg_divisible' = BuildMatrix(divisible_items(items), people, valuations)
    /\ solve_phase' = "active"
    /\ pc' = "solve_start"
    /\ UNCHANGED <<entry, items, people, valuations, scale, indivisible_matrix,
                   divisible_matrix, model_built, solver_calls, status, solution, ret,
                   outcome>>

\* A conversion that lists a divisible item only from half of it upwards.
FromHalfUpwards(its, alloc, i) ==
    LET ind == indivisible_items(its)
        div == divisible_items(its)
        pa == alloc[i]
        got == IF "indivisible" \in DOMAIN pa
               THEN {j \in 1..Len(pa["indivisible"]) : pa["indivisible"][j] = 1} ELSE {}
        part == IF "divisible" \in DOMAIN pa
                THEN {j \in 1..Len(pa["divisible"]) :
                         2 * pa["divisible"][j][1] >= pa["divisible"][j][2]} ELSE {}
    IN  [indivisible |-> [n \in {ind[j].name : j \in got} |-> 1],
         divisible |-> [n \in {div[j].name : j \in part} |->
                           LET j == CHOOSE q \in part : div[q].name = n
                           IN  pa["divisible"][j]]]

\* A conversion that looks the names up in the list of all items.
NamedFromAllItems(its, alloc, i) ==
    LET pa == alloc[i]
        got == IF "indivisible" \in DOMAIN pa
               THEN {j \in 1..Len(pa["indivisible"]) : pa["indivisible"][j] = 1} ELSE {}
        part == IF "divisible" \in DOMAIN pa
                THEN {j \in 1..Len(pa["divisible"]) : pa["divisible"][j][1] > 0} ELSE {}
    IN  [indivisible |-> [n \in {its[j].name : j \in got} |-> 1],
         divisible |-> [n \in {its[j].name : j \in part} |->
                           LET j == CHOOSE q \in part : its[q].name = n
                           IN  pa["divisible"][j]]]

\* Lines 75-93: the allocation of person number i, by item name.
NamedAllocation(its, alloc, i) ==
    LET ind == indivisible_items(its)
        div == divisible_items(its)
        pa == alloc[i]
        got == IF "indivisible" \in DOMAIN pa
               THEN {j \in 1..Len(pa["indivisible"]) : pa["indivisible"][j] = 1} ELSE {}
        part == IF "divisible" \in DOMAIN pa
                THEN {j \in 1..Len(pa["divisible"]) : pa["divisible"][j][1] > 0} ELSE {}
    IN  [indivisible |-> [n \in {ind[j].name : j \in got} |-> 1],
         divisible |-> [n \in {div[j].name : j \in part} |->
                           LET j == CHOOSE q \in part : div[q].name = n
                           IN  pa["divisible"][j]]]

\* Lines 69-95: the result dictionary.
CalcResult(its, ppl, r) ==
    [allocations |-> [person \in Range(ppl) |->
                         LET i == CHOOSE q \in 1..Len(ppl) : ppl[q] = person
                         IN  NamedAllocation(its, r.allocation, i)],
     worst_satisfaction |-> r.worst_satisfaction]

\* Lines 66-95: no allocation -> ValueError("No solution found"); otherwise
\* return the result.
CalcFinish ==
    /\ pc = "calc_check"
    /\ UNCHANGED <<request, response, calls, models>>
    /\ outcome' = IF ret.is_none
                  THEN [kind |-> "raise", type |-> "ValueError",
                        message |-> "No solution found"]
                  ELSE [kind |-> "return", result |-> CalcResult(items, people, ret)]
    /\ pc' = CalcReturnPc
    /\ UNCHANGED <<entry, items, people, valuations, arg_indivisible, arg_divisible, scale,
                   indivisible_matrix, divisible_matrix, model_built, solver_calls,
                   status, solution, solve_phase, ret>>

\* ------------------------------------------------- app/models/calculator.py
\* A string is held as the sequence of its characters.
\* The characters of the explored names that the pattern [a-zA-Z0-9\s\-_.,]
\* keeps; every other character is removed.
AllowedChars == {"a", "b", "c", "d", "p", "q", "r", "s", " "}

\* len(v) > 50
MaxNameLength == 50
\* 1 <= len(...) <= 50
MinCount == 1
MaxCount == 50
\* 0 <= self.value <= 100, in hundredths
MaxValue == 100 * Unit

RECURSIVE KeepAt(_, _, _)
\* The characters of v at the positions in K, from position i on, in order.
KeepAt(v, K, i) ==
    IF i > Len(v) THEN << >>
    ELSE (IF i \in K THEN <<v[i]>> ELSE << >>) \o KeepAt(v, K, i + 1)

\* re.sub(r'[^a-zA-Z0-9\s\-_.,]', '', v)
RemoveDangerous(v) == SelectSeq(v, LAMBDA c : c \in AllowedChars)

\* ' '.join(v.split()): a blank stays only as the first blank after a word
\* that another word follows.
JoinSplit(v) ==
    KeepAt(v, {i \in 1..Len(v) :
                  \/ v[i] # " "
                  \/ /\ i > 1
                     /\ v[i - 1] # " "
                     /\ \E k \in (i + 1)..Len(v) : v[k] # " "}, 1)

\* The value sanitize_input returns when it does not raise.
sanitize_input(v) == JoinSplit(RemoveDangerous(v))

\* The ValueError sanitize_input raises for v, or "ok".
SanitizeError(v) ==
    IF sanitize_input(v) = << >> THEN "Input cannot be empty after sanitization"
    ELSE IF Len(sanitize_input(v)) > MaxNameLength THEN "Input must be 50 characters or less"
    ELSE "ok"

\* The first entry of a list of check results that is not "ok", else "ok".
FirstError(errs) ==
    IF \E k \in 1..Len(errs) : errs[k] # "ok"
    THEN errs[PyMin({k \in 1..Len(errs) : errs[k] # "ok"})]
    ELSE "ok"

\* Item.__post_init__, Person.__post_init__, Valuation.__post_init__
ItemError(raw) == SanitizeError(raw.name)
Item(raw) == [name |-> sanitize_input(raw.name), is_divisible |-> raw.is_divisible]
PersonError(raw) == SanitizeError(raw.name)
Person(raw) == [name |-> sanitize_input(raw.name)]
ValuationError(raw) ==
    FirstError(<<SanitizeError(raw.person), SanitizeError(raw.item),
                 IF 0 <= raw.value /\ raw.value <= MaxValue
                 THEN "ok" ELSE "Value must be between 0 and 100">>)
Valuation(raw) ==
    [person |-> sanitize_input(raw.person), item |-> sanitize_input(raw.item),
     value |-> raw.value]

\* {item.name for item in self.items}, {person.name for person in self.people}
valid_items(req) == {req.items[k].name : k \in 1..Len(req.items)}
valid_people(req) == {req.people[k].name : k \in 1..Len(req.people)}

\* A reference check that looks at the item only.
InvalidItemOnly(v, its, ppl) == IF v.item \notin its THEN "Invalid item name" ELSE "ok"

\* Lines 64-67, for one valuation.
InvalidReference(v, its, ppl) ==
    IF v.item \notin its THEN "Invalid item name"
    ELSE IF v.person \notin ppl THEN "Invalid person name"
    ELSE "ok"

\* any(v.person == person and v.item == item for v in self.valuations)
HasValuation(vals, person, item) ==
    \E k \in 1..Len(vals) : vals[k].person = person /\ vals[k].item = item

\* FairDivisionRequest.__post_init__ on the constructed fields.
RequestError(req) ==
    FirstError(<<
        IF MinCount <= Len(req.items) /\ Len(req.items) <= MaxCount
            THEN "ok" ELSE "Must have between 1 and 50 items",
        IF MinCount <= Len(req.people) /\ Len(req.people) <= MaxCount
            THEN "ok" ELSE "Must have between 1 and 50 people",
        IF req.valuations # << >> THEN "ok" ELSE "Must have at least one valuation",
        FirstError([k \in 1..Len(req.valuations) |->
                       InvalidReference(req.valuations[k], valid_items(req), valid_people(req))]),
        IF \A person \in valid_people(req), item \in valid_items(req) :
               HasValuation(req.valuations, person, item)
            THEN "ok" ELSE "Missing valuation">>)

\* The request object built from a body: every field object first, in the
\* order of the fields, then the request's own checks.
Constructed(body) ==
    [items |-> [k \in 1..Len(body.items) |-> Item(body.items[k])],
     people |-> [k \in 1..Len(body.people) |-> Person(body.people[k])],
     valuations |-> [k \in 1..Len(body.valuations) |-> Valuation(body.valuations[k])]]

ConstructionError(body) ==
    FirstError(<<FirstError([k \in 1..Len(body.items) |-> ItemError(body.items[k])]),
                 FirstError([k \in 1..Len(body.people) |-> PersonError(body.people[k])]),
                 FirstError([k \in 1..Len(body.valuations) |->
                                ValuationError(body.valuations[k])]),
                 RequestError(Constructed(body))>>)

\* -------------------------------------------- app/api/routes/calculator.py
\* status_code=400
StatusBadRequest == 400

\* Names a body declares: the k-th item is named by its letter, by the letter
\* followed by a blank and a character the sanitizer removes, or by that
\* character alone; the k-th person by a letter.
ItemLetters == <<"a", "b", "c", "d">>
PersonLetters == <<"p", "q", "r", "s">>
RawNames(c) == {<<c>>, <<c, " ", "!">>, <<"!">>}

\* Values a body carries (hundredths): 0, 100, 150.
ApiVals == {0, 10000, 15000}

\* Bodies with n items, all indivisible or all divisible.
ItemBodies(n) ==
    {[k \in 1..n |-> [name |-> nm[k], is_divisible |-> d]] :
        nm \in {f \in [1..n -> UNION {RawNames(ItemLetters[k]) : k \in 1..n}] :
                   \A k \in 1..n : f[k] \in RawNames(ItemLetters[k])},
        d \in BOOLEAN}

PeopleBody(p) == [k \in 1..p |-> [name |-> <<PersonLetters[k]>>]]

\* Valuation lists of up to MaxValuations entries, in any order, repeats
\* included, naming the first two people and items.
ValuationBodies ==
    UNION {[1..l -> [person : {<<PersonLetters[1]>>, <<PersonLetters[2]>>},
                     item : {<<ItemLetters[1]>>, <<ItemLetters[2]>>},
                     value : ApiVals]] : l \in 0..MaxValuations}

\* A client posts a body to /calculate.
InitApi ==
    /\ entry = "api"
    /\ pc = "api_start"
    /\ solve_phase = "idle"
    /\ items = << >> /\ people = << >> /\ valuations = << >>
    /\ arg_indivisible = << >> /\ arg_divisible = << >>
    /\ scale = DefaultScale
    /\ FreshLocals
    /\ \E n \in 0..MaxDeclared, p \in 0..MaxDeclared :
          /\ n * p <= MaxDeclared
          /\ \E its \in ItemBodies(n), vs \in ValuationBodies :
                request = [items |-> its, people |-> PeopleBody(p), valuations |-> vs]
    /\ response = NoResponse
    /\ calls = << >>
    /\ models = << >>

\* The framework builds the FairDivisionRequest from the body before the
\* handler runs; a ValueError of a __post_init__ ends the request with the
\* framework's validation error.
ApiConstruct ==
    /\ pc = "api_start"
    /\ IF ConstructionError(request) # "ok"
       THEN /\ response' = [kind |-> "rejected", detail |-> ConstructionError(request)]
            /\ pc' = "done"
       ELSE /\ pc' = "api_handler"
            /\ UNCHANGED response
    /\ UNCHANGED <<entry, items, people, valuations, arg_indivisible, arg_divisible, scale,
                   indivisible_matrix, divisible_matrix, model_built, solver_calls,
                   status, solution, solve_phase, ret, outcome, request, calls, models>>

\* next((v for v in request.valuations if v.item == item and v.person == person), None)
FirstMatch(vals, item, person) ==
    LET hits == {k \in 1..Len(vals) : vals[k].item = item /\ vals[k].person = person}
    IN  IF hits = {} THEN << >> ELSE <<vals[PyMin(hits)].value>>

\* Lines 16-31: the engine's arguments; a pair without valuation raises
\* ValueError inside the try block.
ApiConvert ==
    /\ pc = "api_handler"
    /\ LET req == Constructed(request)
           its == [k \in 1..Len(req.items) |->
                      [name |-> req.items[k].name, is_divisible |-> req.items[k].is_divisible]]
           ppl == [k \in 1..Len(req.people) |-> req.people[k].name]
           table == [n \in {its[k].name : k \in 1..Len(its)} |->
                        [person \in Range(ppl) |-> FirstMatch(req.valuations, n, person)]]
       IN  /\ items' = its
           /\ people' = ppl
           /\ IF \E n \in DOMAIN table : \E person \in Range(ppl) : table[n][person] = << >>
              THEN /\ outcome' = [kind |-> "raise", type |-> "ValueError",
                                  message |-> "Missing valuation"]
                   /\ pc' = "api_respond"
                   /\ UNCHANGED valuations
              ELSE /\ valuations' = table
                   /\ pc' = "calc_start"
                   /\ UNCHANGED outcome
    /\ UNCHANGED <<entry, arg_indivisible, arg_divisible, scale, indivisible_matrix,
                   divisible_matrix, model_built, solver_calls, status, solution,
                   solve_phase, ret, request, response, calls, models>>

\* A handler that reports a failure in the body of an ordinary response.
ErrorInBody(out) ==
    IF out.kind = "return"
    THEN [kind |-> "ok", success |-> TRUE, message |-> "Calculation successful",
          result |-> out.result]
    ELSE [kind |-> "ok", success |-> FALSE, message |-> out.message]

\* Lines 36-47: FairDivisionResponse(success=True, ...) for a result,
\* HTTPException(status_code=400, detail=str(e)) for any exception.
HandlerResponse(out) ==
    IF out.kind = "return"
    THEN [kind |-> "ok", success |-> TRUE, message |-> "Calculation successful",
          result |-> out.result]
    ELSE [kind |-> "http_error", status_code |-> StatusBadRequest, detail |-> out.message]

ApiRespond ==
    /\ pc = "api_respond"
    /\ response' = HandlerResponse(outcome)
    /\ pc' = "done"
    /\ UNCHANGED <<entry, items, people, valuations, arg_indivisible, arg_divisible, scale,
                   indivisible_matrix, divisible_matrix, model_built, solver_calls,
                   status, solution, solve_phase, ret, outcome, request, calls, models>>

\* ------------------------------------------------------------ specification
Next ==
    \/ SolveValidate
    \/ SolveBuild
    \/ SolveRun
    \/ SolveExtract
    \/ CalcValidate
    \/ CalcCall
    \/ CalcFinish

Spec == Init /\ [][Next]_vars

\* A request posted to /calculate, followed through the handler and the engine.
NextApi ==
    \/ ApiConstruct
    \/ ApiConvert
    \/ CalcValidate
    \/ CalcCall
    \/ SolveValidate
    \/ SolveBuild
    \/ SolveRun
    \/ SolveExtract
    \/ CalcFinish
    \/ ApiRespond

\* A request runs to its end: Python executes the statements of the call one
\* after the other without waiting for anything, and solver.Solve returns
\* within solver.parameters.max_time_in_seconds = 30.0, so a step that can be
\* taken is taken.
InitLive ==
    /\ InitSolveUpTo(LiveCells) \/ InitCalcUpTo(LiveCells)
    /\ FreshLocals
    /\ request = NoRequest
    /\ response = NoResponse
    /\ calls = << >>
    /\ models = << >>

SpecLive == InitLive /\ [][Next]_vars /\ WF_vars(Next)

SpecApi == InitApi /\ [][NextApi]_vars

\* The calls of calculate_fair_division alone, for the properties that compare
\* a call with the calls on reordered arguments.
InitSymmetry ==
    /\ InitCalc
    /\ FreshLocals
    /\ request = NoRequest
    /\ response = NoResponse
    /\ calls = << >>
    /\ models = << >>

SpecSymmetry == InitSymmetry /\ [][Next]_vars

\* Callers of the two routines, the callers of calculate_fair_division passing
\* complete tables whose entries may also lie above 100 (hundredths: 150).
WideVals == CalcVals \cup {15000}

InitReport ==
    /\ \/ InitSolve
       \/ /\ entry = "calc"
          /\ pc = "calc_start"
          /\ solve_phase = "idle"
          /\ \E p \in 0..MaxCells, n \in 0..MaxCells :
                /\ p * n <= MaxCells
                /\ items \in ItemLists(n)
                /\ people = PeopleList(p)
                /\ valuations \in [NameSet(ItemNames, n) ->
                                      [NameSet(PersonNames, p) -> {<<v>> : v \in WideVals}]]
          /\ arg_indivisible = << >> /\ arg_divisible = << >>
          /\ scale = DefaultScale
    /\ FreshLocals
    /\ request = NoRequest
    /\ response = NoResponse
    /\ calls = << >>
    /\ models = << >>

SpecReport == InitReport /\ [][Next]_vars

\* ------------------------------------------------ the repository's scenarios
\* test_clare_dave_scenario, for n people: person number i values the item
\* number f[i] at 100 and every other item at 0; all items indivisible.
DisjointItems(n) == [k \in 1..n |-> [name |-> ItemNames[k], is_divisible |-> FALSE]]
DisjointValuations(n, f) ==
    [name \in NameSet(ItemNames, n) |->
        [person \in NameSet(PersonNames, n) |->
            LET i == CHOOSE q \in 1..n : PersonNames[q] = person
            IN  IF ItemNames[f[i]] = name THEN <<100 * Unit>> ELSE <<0>>]]

\* test_clare_dave_with_cash: the preferred item at 80, the other at 0, the
\* cash at 20.
CashItems ==
    <<[name |-> "Car", is_divisible |-> FALSE], [name |-> "Cat", is_divisible |-> FALSE],
      [name |-> "Cash", is_divisible |-> TRUE]>>
CashPeople == <<"Clare", "Dave">>
CashValuations ==
    [name \in {"Car", "Cat", "Cash"} |->
        [person \in {"Clare", "Dave"} |->
            IF name = "Cash" THEN <<20 * Unit>>
            ELSE IF (name = "Car") = (person = "Clare") THEN <<80 * Unit>> ELSE <<0>>]]

\* test_break_up_scenario: seven indivisible items and the divisible Cash,
\* two people; BreakUpTable[k] holds the valuations of item k by Alex and Bob.
BreakUpItems ==
    <<[name |-> "Car", is_divisible |-> FALSE], [name |-> "Cash", is_divisible |-> TRUE],
      [name |-> "Cat", is_divisible |-> FALSE], [name |-> "Air Fryer", is_divisible |-> FALSE],
      [name |-> "Games Computer", is_divisible |-> FALSE],
      [name |-> "Washing Machine", is_divisible |-> FALSE],
      [name |-> "Painting", is_divisible |-> FALSE], [name |-> "TV", is_divisible |-> FALSE]>>
BreakUpPeople == <<"Alex", "Bob">>
BreakUpTable ==
    <<<<10, 32>>, <<15, 8>>, <<30, 10>>, <<5, 5>>, <<8, 20>>, <<12, 8>>, <<15, 5>>, <<5, 12>>>>
BreakUpValuations ==
    [name \in {BreakUpItems[k].name : k \in 1..Len(BreakUpItems)} |->
        LET k == CHOOSE q \in 1..Len(BreakUpItems) : BreakUpItems[q].name = name
        IN  [person \in Range(BreakUpPeople) |->
                <<BreakUpTable[k][IF person = "Alex" THEN 1 ELSE 2] * Unit>>]]

\* A caller calls calculate_fair_division with one of the scenarios.
InitScenarios ==
    /\ entry = "calc"
    /\ pc = "calc_start"
    /\ solve_phase = "idle"
    /\ \/ \E n \in 1..MaxAgents : \E f \in [1..n -> 1..n] :
             /\ \A a, b \in 1..n : f[a] = f[b] => a = b
             /\ items = DisjointItems(n)
             /\ people = PeopleList(n)
             /\ valuations = DisjointValuations(n, f)
       \/ /\ items = CashItems
          /\ people = CashPeople
          /\ valuations = CashValuations
       \/ /\ items = BreakUpItems
          /\ people = BreakUpPeople
          /\ valuations = BreakUpValuations
    /\ arg_indivisible = << >> /\ arg_divisible = << >>
    /\ scale = DefaultScale
    /\ FreshLocals
    /\ request = NoRequest
    /\ response = NoResponse
    /\ calls = << >>
    /\ models = << >>

SpecScenarios == InitScenarios /\ [][Next]_vars

\* ---------------------------------------------------------- concurrent calls
\* Several calls of calculate_fair_division run at once, each in its own
\* frame; their steps interleave in any order.  A frame holds the call's
\* arguments and locals; the CpModel objects live in memory, models[id]
\* holding what was built into object id.
Calls == 1..MaxCalls

single == <<entry, pc, items, people, valuations, arg_indivisible, arg_divisible, scale,
            indivisible_matrix, divisible_matrix, model_built, solver_calls, status,
            solution, solve_phase, ret, outcome, request, response>>

\* The arguments of a call: a disjoint-preferences table for one or two
\* people, one person with one item valued 50, or one person with one
\* divisible item valued 100.
DisjointInput(n, f) ==
    [items |-> DisjointItems(n), people |-> PeopleList(n),
     valuations |-> DisjointValuations(n, f)]
HalfInput ==
    [items |-> DisjointItems(1), people |-> PeopleList(1),
     valuations |-> [name \in {ItemNames[1]} |-> [person \in {PersonNames[1]} |-> <<50 * Unit>>]]]
CashOnlyInput ==
    [items |-> <<[name |-> "Cash", is_divisible |-> TRUE]>>, people |-> PeopleList(1),
     valuations |-> [name \in {"Cash"} |-> [person \in {PersonNames[1]} |-> <<100 * Unit>>]]]
CallInputs ==
    {DisjointInput(1, <<1>>), DisjointInput(2, <<1, 2>>), DisjointInput(2, <<2, 1>>),
     HalfInput, CashOnlyInput}

NoModel == [I |-> << >>, D |-> << >>, scale |-> 0]

InitConcurrent ==
    /\ entry = "concurrent"
    /\ pc = "idle"
    /\ solve_phase = "idle"
    /\ items = << >> /\ people = << >> /\ valuations = << >>
    /\ arg_indivisible = << >> /\ arg_divisible = << >>
    /\ scale = DefaultScale
    /\ FreshLocals
    /\ request = NoRequest
    /\ response = NoResponse
    /\ \E ins \in [Calls -> CallInputs] :
          calls = [c \in Calls |->
                      [pc |-> "calc_start", items |-> ins[c].items, people |-> ins[c].people,
                       valuations |-> ins[c].valuations, model |-> 0,
                       ret |-> NoneRet, outcome |-> NoOutcome]]
    /\ models = [c \in Calls |-> NoModel]

\* Lines 37-42 in the frame of call c.
CallValidate(c) ==
    /\ calls[c].pc = "calc_start"
    /\ LET fr == calls[c]
           bad == {k \in 1..Len(fr.people) :
                      ValidatePerson(fr.items, fr.people, fr.valuations, k) # "ok"}
       IN  IF bad # {}
           THEN LET type == ValidatePerson(fr.items, fr.people, fr.valuations, PyMin(bad))
                IN  calls' = [calls EXCEPT ![c].pc = "done",
                                 ![c].outcome =
                                     [kind |-> "raise", type |-> type,
                                      message |-> IF type = "ValueError"
                                                  THEN "must sum to 100" ELSE "missing key"]]
           ELSE calls' = [calls EXCEPT ![c].pc = "calc_matrices"]
    /\ UNCHANGED models
    /\ UNCHANGED single

\* A module-level CpModel that every call reuses.
ModuleModel(c) == 1

\* model = cp_model.CpModel(): the object call c constructs belongs to c alone.
NewModel(c) == c

\* Lines 44-64 and 101-208 in the frame of call c: the matrices, the input
\* check, and the variables, constraints and objective built into the call's
\* CpModel.
CallBuild(c) ==
    /\ calls[c].pc = "calc_matrices"
    /\ LET fr == calls[c]
           I == BuildMatrix(indivisible_items(fr.items), fr.people, fr.valuations)
           D == BuildMatrix(divisible_items(fr.items), fr.people, fr.valuations)
       IN  IF BothEmpty(I, D) \/ BuildRaises(IntMatrix(I), IntMatrix(D))
           THEN /\ calls' = [calls EXCEPT ![c].pc = "calc_check", ![c].ret = NoneRet]
                /\ UNCHANGED models
           ELSE /\ calls' = [calls EXCEPT ![c].pc = "solve_run", ![c].model = NewModel(c)]
                /\ models' = [models EXCEPT ![NewModel(c)] =
                                 [I |-> IntMatrix(I), D |-> IntMatrix(D),
                                  scale |-> DefaultScale]]
    /\ UNCHANGED single

\* Lines 210-268 in the frame of call c: the solver works on the CpModel the
\* frame refers to, and the result is read from that model's variables.
CallSolve(c) ==
    /\ calls[c].pc = "solve_run"
    /\ LET m == models[calls[c].model]
       IN  \E r \in SolverResults(m.I, m.D, m.scale) :
              calls' = [calls EXCEPT ![c].pc = "calc_check",
                           ![c].ret = IF HasSolution(r.status)
                                      THEN Extracted(m.I, m.D, m.scale, r.solution)
                                      ELSE NoneRet]
    /\ UNCHANGED models
    /\ UNCHANGED single

\* Lines 66-99 in the frame of call c.
CallFinish(c) ==
    /\ calls[c].pc = "calc_check"
    /\ LET fr == calls[c]
       IN  calls' = [calls EXCEPT ![c].pc = "done",
                        ![c].outcome =
                            IF fr.ret.is_none
                            THEN [kind |-> "raise", type |-> "ValueError",
                                  message |-> "No solution found"]
                            ELSE [kind |-> "return",
                                  result |-> CalcResult(fr.items, fr.people, fr.ret)]]
    /\ UNCHANGED models
    /\ UNCHANGED single

NextConcurrent ==
    \E c \in Calls : CallValidate(c) \/ CallBuild(c) \/ CallSolve(c) \/ CallFinish(c)

SpecConcurrent == InitConcurrent /\ [][NextConcurrent]_vars

\* ------------------------------------------------------------------ claims
\* solve_fair_division_mixed has returned an allocation.
Returned == solve_phase = "returned" /\ ~ret.is_none

\* Every entry of the matrix, as passed, is a whole number.
IsWhole(m) == \A i \in 1..Len(m) : \A j \in 1..Len(m[i]) : m[i][j] % Unit = 0

\* C1: max-min optimality. When the solver tagged the returned allocation
\* OPTIMAL and the matrices passed hold whole numbers, no assignment that gives
\* every indivisible item to exactly one person and splits every divisible
\* item completely has a strictly higher minimum actual satisfaction than the
\* returned worst_satisfaction.
C1_MaxMinOptimal ==
    (Returned /\ status = "OPTIMAL" /\ IsWhole(arg_indivisible) /\ IsWhole(arg_divisible)) =>
        \A a \in Assignments(indivisible_matrix, divisible_matrix, scale) :
            MinSatisfaction(indivisible_matrix, divisible_matrix, scale, a)[1]
                <= ret.worst_satisfaction[1]

\* C2: exclusivity. In every returned allocation each indivisible item has
\* exactly one person whose indicator is 1, and every other indicator is 0.
C2_Exclusivity ==
    Returned =>
        \A j \in 1..num_indivisible(indivisible_matrix) :
            \E i \in 1..Len(ret.allocation) :
                /\ ret.allocation[i]["indivisible"][j] = 1
                /\ \A k \in (1..Len(ret.allocation)) \ {i} :
                      ret.allocation[k]["indivisible"][j] = 0

\* An allocation of two indivisible items among several people, without any
\* divisible item, was returned.
C2_Witness ==
    /\ Returned
    /\ Len(ret.allocation) >= 2
    /\ num_indivisible(indivisible_matrix) >= 2
    /\ divisible_matrix = << >>

\* C3: completeness. In every returned allocation the fractions of each
\* divisible item are shares over scale, and the shares sum to scale.
C3_Completeness ==
    Returned =>
        \A j \in 1..num_divisible(divisible_matrix) :
            /\ \A i \in 1..Len(ret.allocation) :
                  ret.allocation[i]["divisible"][j][2] = scale
            /\ SumTo([i \in 1..Len(ret.allocation) |->
                         ret.allocation[i]["divisible"][j][1]], Len(ret.allocation)) = scale

\* An allocation that splits a divisible item between two people was returned.
C3_Witness ==
    /\ Returned
    /\ Len(ret.allocation) >= 2
    /\ num_divisible(divisible_matrix) >= 1
    /\ \E i \in 1..Len(ret.allocation) :
          /\ ret.allocation[i]["divisible"][1][1] > 0
          /\ ret.allocation[i]["divisible"][1][1] < scale

\* Rationals <<numerator, denominator>> with positive denominators.
RatEq(a, b) == a[1] * b[2] = b[1] * a[2]
RatLeq(a, b) == a[1] * b[2] <= b[1] * a[2]

\* m is the least of the values f[1], ..., f[n].
IsMinOf(m, f, n) == (\E i \in 1..n : RatEq(m, f[i])) /\ (\A i \in 1..n : RatLeq(m, f[i]))

\* The request is a well-formed call of calculate_fair_division: at least one
\* person and one item, every cell present and a whole number in [0, 100],
\* every person's valuations summing to 100.
WellFormed ==
    /\ entry = "calc"
    /\ Len(people) >= 1
    /\ Len(items) >= 1
    /\ \A i \in 1..Len(people) :
          /\ \A k \in 1..Len(items) :
                LET c == valuations[items[k].name][people[i]]
                IN  c # << >> /\ c[1] >= 0 /\ c[1] <= 100 * Unit /\ c[1] % Unit = 0
          /\ total_value(items, valuations, people[i]) = 100 * Unit

\* C4: feasibility. For a well-formed input the model handed to the solver
\* has a feasible assignment, and calculate_fair_division returns a result
\* unless the solver ran out of time.
C4_Feasible ==
    WellFormed =>
        /\ pc = "solve_run" => Feasible(indivisible_matrix, divisible_matrix, scale) # {}
        /\ pc = "done" => (outcome.kind = "return" \/ status = "UNKNOWN")

\* C5: zero indivisible items. Called without indivisible items and with at
\* least one divisible item, solve_fair_division_mixed returns an allocation
\* and a worst value (unless the solver ran out of time), and the fractions
\* of every divisible item sum to 1.
C5_OnlyDivisible ==
    (solve_phase = "returned" /\ arg_indivisible = << >> /\ arg_divisible # << >>) =>
        \/ status = "UNKNOWN"
        \/ /\ ~ret.is_none
           /\ \A j \in 1..Len(arg_divisible[1]) :
                 SumTo([i \in 1..Len(ret.allocation) |->
                           ret.allocation[i]["divisible"][j][1]], Len(ret.allocation)) = scale

\* The satisfaction of person i recomputed from the returned allocation pa
\* with the valuation rows irow and drow, each valuation counting den-ths:
\* the valuations of the indivisible items received plus valuation times
\* fraction for every divisible item.
Recomputed(pa, irow, drow, den) ==
    LET ind == IF "indivisible" \in DOMAIN pa
               THEN SumTo([j \in 1..Len(irow) |->
                              IF pa["indivisible"][j] = 1 THEN irow[j] ELSE 0], Len(irow))
               ELSE 0
        div == IF "divisible" \in DOMAIN pa
               THEN SumTo([j \in 1..Len(drow) |-> drow[j] * pa["divisible"][j][1]], Len(drow))
               ELSE 0
        sc == IF "divisible" \in DOMAIN pa THEN pa["divisible"][1][2] ELSE 1
    IN  <<sc * ind + div, sc * den>>

\* Row i of a matrix, or the empty row when the matrix is the empty list.
RowOf(m, i) == IF m = << >> THEN << >> ELSE m[i]

\* C6: the worst_satisfaction returned by solve_fair_division_mixed is the
\* minimum over the people of the satisfaction recomputed from the returned
\* allocation and the routine's valuation matrices, and calculate_fair_division
\* passes it on unchanged.
C6_WorstIsRecomputed ==
    /\ Returned =>
          IsMinOf(ret.worst_satisfaction,
                  [i \in 1..Len(ret.allocation) |->
                      Recomputed(ret.allocation[i], RowOf(indivisible_matrix, i),
                                 RowOf(divisible_matrix, i), 1)],
                  Len(ret.allocation))
    /\ (entry = "calc" /\ outcome.kind = "return") =>
          outcome.result.worst_satisfaction = ret.worst_satisfaction

\* calculate_fair_division returned a worst_satisfaction that differs from the
\* value the model's worst_satisfaction variable has in the solution.
C6_Witness ==
    /\ entry = "calc"
    /\ outcome.kind = "return"
    /\ ~RatEq(outcome.result.worst_satisfaction,
              <<Objective(indivisible_matrix, divisible_matrix, scale, solution), 1>>)

\* C7: the reported worst_satisfaction is the minimum over the people of the
\* satisfaction computed from the valuations exactly as the caller supplied
\* them, whole numbers or not.
C7_SuppliedValuations ==
    Returned =>
        IsMinOf(ret.worst_satisfaction,
                [i \in 1..Len(ret.allocation) |->
                    Recomputed(ret.allocation[i], RowOf(arg_indivisible, i),
                               RowOf(arg_divisible, i), Unit)],
                Len(ret.allocation))

\* C8: empty input fails. Called with both matrices empty,
\* solve_fair_division_mixed returns (None, None) without constructing a model
\* or calling the solver; calculate_fair_division called with no items and no
\* people raises an error.
C8_EmptyInputFails ==
    /\ (solve_phase = "returned" /\ arg_indivisible = << >> /\ arg_divisible = << >>) =>
          (ret.is_none /\ ~model_built /\ solver_calls = 0)
    /\ (entry = "calc" /\ items = << >> /\ people = << >> /\ pc = "done") =>
          outcome.kind = "raise"

\* calculate_fair_division, called with no items and no people, called
\* solve_fair_division_mixed with two empty matrices and raised.
C8_Witness ==
    /\ entry = "calc"
    /\ items = << >> /\ people = << >>
    /\ pc = "done"
    /\ solve_phase = "returned" /\ ret.is_none
    /\ outcome.kind = "raise" /\ outcome.message = "No solution found"

\* Every (person, item) cell of the valuations dictionary is present.
CompleteTable ==
    \A i \in 1..Len(people) : \A k \in 1..Len(items) :
        valuations[items[k].name][people[i]] # << >>

\* The total differs from 100 by more than 0.01.
OffBy(total) ==
    \/ 100 * total > 100 * 100 * Unit + Unit
    \/ 100 * total < 100 * 100 * Unit - Unit

SomeSumOff ==
    \E i \in 1..Len(people) : OffBy(total_value(items, valuations, people[i]))

\* C9: strict normalisation. For a complete table in which some person's
\* valuations sum to a value differing from 100 by more than 0.01,
\* calculate_fair_division raises the ValueError of the normalisation check
\* with no matrix built, solve_fair_division_mixed not called, no model and no
\* solver call; for a complete table with every sum within 0.01 of 100 it
\* goes on to call solve_fair_division_mixed.
C9_StrictNormalization ==
    (entry = "calc" /\ CompleteTable) =>
        /\ SomeSumOff =>
              /\ pc \in {"calc_start", "done"}
              /\ solve_phase = "idle"
              /\ arg_indivisible = << >> /\ arg_divisible = << >>
              /\ ~model_built /\ solver_calls = 0
              /\ pc = "done" =>
                    /\ outcome.kind = "raise"
                    /\ outcome.type = "ValueError"
                    /\ outcome.message = "must sum to 100"
        /\ ~SomeSumOff =>
              /\ pc # "calc_start" => (pc = "calc_matrices" \/ solve_phase # "idle")
              /\ pc = "done" => solve_phase = "returned"

\* The first person's valuations sum to 100.01, the second person's to
\* 100.02, and the call ended with the ValueError of the normalisation check.
C9_Witness ==
    /\ entry = "calc" /\ CompleteTable
    /\ Len(people) >= 2
    /\ total_value(items, valuations, people[1]) = 100 * Unit + 1
    /\ total_value(items, valuations, people[2]) = 100 * Unit + 2
    /\ pc = "done"
    /\ outcome.kind = "raise" /\ outcome.type = "ValueError"

\* The input respects the structural limits: 1 to 50 items, 1 to 50 people,
\* every cell present and within [0, 100].
WithinLimits ==
    /\ Len(items) >= 1 /\ Len(items) <= 50
    /\ Len(people) >= 1 /\ Len(people) <= 50
    /\ \A i \in 1..Len(people) : \A k \in 1..Len(items) :
          LET c == valuations[items[k].name][people[i]]
          IN  c # << >> /\ c[1] >= 0 /\ c[1] <= 100 * Unit

\* C10: calculate_fair_division re-checks the structural limits: an input
\* outside them is rejected with an error and no model is constructed for it.
C10_EngineRechecks ==
    (entry = "calc" /\ ~WithinLimits) =>
        /\ ~model_built
        /\ pc = "done" => outcome.kind = "raise"

\* C11: solver result handling. Once solve_fair_division_mixed has returned,
\* it returned an allocation exactly when the solver was called and answered
\* OPTIMAL or FEASIBLE; with any other status (INFEASIBLE, UNKNOWN,
\* MODEL_INVALID), and when the solver was never reached, it returned
\* (None, None), and calculate_fair_division, once it has ended after such a
\* return, raised ValueError "No solution found".
C11_StatusHandling ==
    solve_phase = "returned" =>
        /\ ~ret.is_none <=> (solver_calls = 1 /\ status \in {"OPTIMAL", "FEASIBLE"})
        /\ (entry = "calc" /\ pc = "done" /\ ret.is_none) =>
              outcome = [kind |-> "raise", type |-> "ValueError",
                         message |-> "No solution found"]

\* calculate_fair_division ended after the solver answered FEASIBLE with an
\* assignment that is not optimal.
C11_Witness ==
    /\ entry = "calc"
    /\ pc = "done"
    /\ status = "FEASIBLE"
    /\ outcome.kind = "return"
    /\ solution \notin Optimal(indivisible_matrix, divisible_matrix, scale)

\* The names a body declares for its people, as sanitize_input leaves them.
DeclaredPeople(body) == {sanitize_input(body.people[k].name) : k \in 1..Len(body.people)}

Orders(p) == {f \in [1..p -> 1..p] : \A a, b \in 1..p : f[a] = f[b] => a = b}

\* The matrix with its rows listed in the order f.
PermuteRows(m, f) == IF m = << >> THEN << >> ELSE [i \in 1..Len(m) |-> m[f[i]]]

\* A returned pair with the people relabelled by f.
Relabelled(r, f) ==
    [is_none |-> FALSE,
     allocation |-> [i \in 1..Len(r.allocation) |-> r.allocation[f[i]]],
     worst_satisfaction |-> r.worst_satisfaction]

\* What solve_fair_division_mixed can return when the solver answers
\* "OPTIMAL" or "FEASIBLE".
Returns(I, D, sc, st) ==
    {Extracted(I, D, sc, s) :
        s \in IF st = "OPTIMAL" THEN Optimal(I, D, sc) ELSE Feasible(I, D, sc)}

\* C13 as stated: symmetry. When an allocation was returned with status
\* OPTIMAL, then for every reordering of the people and of the matrix rows,
\* whichever optimal solution the solver returns for the reordered input, the
\* reported worst_satisfaction is the same and the allocation is the returned
\* one with the people relabelled.
C13_Symmetry ==
    (Returned /\ status = "OPTIMAL") =>
        \A f \in Orders(num_people(indivisible_matrix, divisible_matrix)) :
            \A r \in Returns(PermuteRows(indivisible_matrix, f),
                             PermuteRows(divisible_matrix, f), scale, "OPTIMAL") :
                r = Relabelled(ret, f)

\* C13 amended: symmetry of what can be returned. When the model of an input
\* has been built, then for every reordering of the people and of the matrix
\* rows, the pairs (allocation, worst_satisfaction) the routine can return for
\* the reordered input with status OPTIMAL are exactly the pairs it can return
\* for the input itself, with the people relabelled; the same holds for status
\* FEASIBLE.  Which of these pairs one call returns is the solver's choice.
C13_SymmetricReturns ==
    pc = "solve_run" =>
        \A st \in {"OPTIMAL", "FEASIBLE"} :
            LET own == Returns(indivisible_matrix, divisible_matrix, scale, st)
            IN  \A f \in Orders(num_people(indivisible_matrix, divisible_matrix)) :
                    Returns(PermuteRows(indivisible_matrix, f),
                            PermuteRows(divisible_matrix, f), scale, st)
                        = {Relabelled(r, f) : r \in own}

\* The model was built for two people with different rows, an indivisible and
\* a divisible item, and the solver is about to choose among several optimal
\* solutions with different reported worst_satisfaction.
C13_Witness ==
    /\ pc = "solve_run"
    /\ num_people(indivisible_matrix, divisible_matrix) = 2
    /\ indivisible_matrix[1] # indivisible_matrix[2]
    /\ divisible_matrix # << >>
    /\ \E r, q \in Returns(indivisible_matrix, divisible_matrix, scale, "OPTIMAL") :
          r.worst_satisfaction # q.worst_satisfaction

\* The request is a disjoint-preferences one: as many indivisible items as
\* people, and every person values one item, different from everybody else's,
\* at 100 and all other items at 0.  own[i] is the number of person i's item.
Disjoint(own) ==
    /\ Len(items) = Len(people)
    /\ DOMAIN own = 1..Len(people)
    /\ \A i \in 1..Len(people) : own[i] \in 1..Len(items)
    /\ \A a, b \in 1..Len(people) : own[a] = own[b] => a = b
    /\ \A k \in 1..Len(items) : ~items[k].is_divisible
    /\ \A i \in 1..Len(people), k \in 1..Len(items) :
          valuations[items[k].name][people[i]] = <<IF own[i] = k THEN 100 * Unit ELSE 0>>

\* C14: disjoint preferences. When calculate_fair_division has ended for n
\* people who each value a distinct indivisible item at 100 and everything
\* else at 0 (n = 2: A values X, B values Y), and the solver answered OPTIMAL,
\* the result gives every person exactly the item they value, nothing
\* divisible, and reports worst_satisfaction 100.
C14_DisjointPreferences ==
    \A own \in [1..Len(people) -> 1..Len(items)] :
        (entry = "calc" /\ pc = "done" /\ status = "OPTIMAL" /\ people # << >>
            /\ Disjoint(own)) =>
            /\ outcome.kind = "return"
            /\ RatEq(outcome.result.worst_satisfaction, <<100, 1>>)
            /\ \A i \in 1..Len(people) :
                  /\ DOMAIN outcome.result.allocations[people[i]].indivisible
                        = {items[own[i]].name}
                  /\ DOMAIN outcome.result.allocations[people[i]].divisible = {}

\* The call for three people who value three different items has ended with
\* an optimal result.
C14_Witness ==
    /\ entry = "calc"
    /\ pc = "done"
    /\ status = "OPTIMAL"
    /\ Len(people) = 3
    /\ \E own \in [1..3 -> 1..Len(items)] : Disjoint(own) /\ own[1] # 1
    /\ outcome.kind = "return"

\* C15: mixed scenario. When calculate_fair_division has ended for two people
\* who value their preferred indivisible item at 80, the other one at 0 and
\* the divisible item at 20, and the solver answered OPTIMAL, then, whichever
\* optimal solution it chose, each person has exactly the preferred item and
\* half of the divisible item, and worst_satisfaction is 90.
C15_MixedScenario ==
    (entry = "calc" /\ pc = "done" /\ status = "OPTIMAL"
        /\ items = CashItems /\ people = CashPeople /\ valuations = CashValuations) =>
        /\ outcome.kind = "return"
        /\ RatEq(outcome.result.worst_satisfaction, <<90, 1>>)
        /\ DOMAIN outcome.result.allocations["Clare"].indivisible = {"Car"}
        /\ DOMAIN outcome.result.allocations["Dave"].indivisible = {"Cat"}
        /\ \A person \in {"Clare", "Dave"} :
              /\ DOMAIN outcome.result.allocations[person].divisible = {"Cash"}
              /\ RatEq(outcome.result.allocations[person].divisible["Cash"], <<1, 2>>)

\* The call for the mixed scenario has ended with an optimal result.
C15_Witness ==
    /\ entry = "calc"
    /\ pc = "done"
    /\ status = "OPTIMAL"
    /\ items = CashItems
    /\ valuations = CashValuations
    /\ outcome.kind = "return"
    /\ num_divisible(divisible_matrix) = 1

\* The request model accepted the body: the handler was entered.
Accepted == entry = "api" /\ pc # "api_start" /\ response.kind # "rejected"

\* The names a body declares for its items, as sanitize_input leaves them.
DeclaredItems(body) == {sanitize_input(body.items[k].name) : k \in 1..Len(body.items)}

\* The entries of the body's valuation list that are for the pair.
EntriesFor(body, person, item) ==
    {k \in 1..Len(body.valuations) :
        /\ sanitize_input(body.valuations[k].person) = person
        /\ sanitize_input(body.valuations[k].item) = item}

\* C16: table completeness. A body is accepted by the request model only if
\* its valuation list holds exactly one entry for every pair of a declared
\* person and a declared item: a body with a pair that has no entry, or with
\* two entries for one pair, is rejected.
C16_TableCompleteness ==
    Accepted =>
        \A person \in DeclaredPeople(request), item \in DeclaredItems(request) :
            Cardinality(EntriesFor(request, person, item)) = 1

\* Some entry of the body's valuation list names, after sanitization, an item
\* or a person the body does not declare.
DanglingReference(body) ==
    \E k \in 1..Len(body.valuations) :
        \/ sanitize_input(body.valuations[k].item) \notin DeclaredItems(body)
        \/ sanitize_input(body.valuations[k].person) \notin DeclaredPeople(body)

\* C17: referential integrity. A body with a valuation that names an item or
\* a person outside the declared sets, the names compared as sanitize_input
\* leaves them, never gets past the request model: the handler is not
\* entered, the engine is not called, and when the request has ended it has
\* ended rejected.
C17_ReferentialIntegrity ==
    (entry = "api" /\ DanglingReference(request)) =>
        /\ pc \in {"api_start", "done"}
        /\ pc = "done" => response.kind = "rejected"
        /\ outcome = NoOutcome
        /\ solve_phase = "idle"
        /\ ~model_built

\* A body was rejected for naming an undeclared person, though it has a
\* valuation for every declared pair and declares an item by a name that
\* sanitization changes.
C17_Witness ==
    /\ entry = "api"
    /\ pc = "done"
    /\ response = [kind |-> "rejected", detail |-> "Invalid person name"]
    /\ \A person \in DeclaredPeople(request), item \in DeclaredItems(request) :
          EntriesFor(request, person, item) # {}
    /\ \E k \in 1..Len(request.items) :
          sanitize_input(request.items[k].name) # request.items[k].name

\* What solve_fair_division_mixed can return to a call of
\* calculate_fair_division that runs alone on the input.
SoloReturns(args) ==
    LET I == BuildMatrix(indivisible_items(args.items), args.people, args.valuations)
        D == BuildMatrix(divisible_items(args.items), args.people, args.valuations)
    IN  IF BothEmpty(I, D) \/ BuildRaises(IntMatrix(I), IntMatrix(D))
        THEN {NoneRet}
        ELSE {IF HasSolution(r.status)
              THEN Extracted(IntMatrix(I), IntMatrix(D), DefaultScale, r.solution)
              ELSE NoneRet : r \in SolverResults(IntMatrix(I), IntMatrix(D), DefaultScale)}

\* The outcomes of a call of calculate_fair_division that runs alone on the
\* input: the exception raised or the result returned.
SoloOutcomes(args) ==
    LET bad == {k \in 1..Len(args.people) :
                   ValidatePerson(args.items, args.people, args.valuations, k) # "ok"}
    IN  IF bad # {}
        THEN {[kind |-> "raise",
               type |-> ValidatePerson(args.items, args.people, args.valuations, PyMin(bad)),
               message |-> IF ValidatePerson(args.items, args.people, args.valuations, PyMin(bad))
                                = "ValueError"
                           THEN "must sum to 100" ELSE "missing key"]}
        ELSE {IF r.is_none
              THEN [kind |-> "raise", type |-> "ValueError", message |-> "No solution found"]
              ELSE [kind |-> "return", result |-> CalcResult(args.items, args.people, r)] :
                 r \in SoloReturns(args)}

\* The arguments call c was given.
InputOf(c) ==
    [items |-> calls[c].items, people |-> calls[c].people,
     valuations |-> calls[c].valuations]

\* C18: request isolation. In every interleaving of the concurrent calls,
\* what solve_fair_division_mixed hands back to a call is something it can
\* hand back when the call runs alone on the same arguments, and the outcome
\* of a call that has ended (the result returned or the exception raised) is
\* an outcome of the call running alone on the same arguments.
C18_RequestIsolation ==
    \A c \in DOMAIN calls :
        /\ calls[c].pc = "calc_check" => calls[c].ret \in SoloReturns(InputOf(c))
        /\ calls[c].pc = "done" => calls[c].outcome \in SoloOutcomes(InputOf(c))

\* Two calls with different arguments have both ended with a result, each
\* from its own CpModel, and the results differ.
C18_Witness ==
    /\ DOMAIN calls # {}
    /\ \E c, d \in DOMAIN calls :
          /\ InputOf(c) # InputOf(d)
          /\ calls[c].pc = "done" /\ calls[d].pc = "done"
          /\ calls[c].outcome.kind = "return" /\ calls[d].outcome.kind = "return"
          /\ calls[c].outcome # calls[d].outcome
          /\ calls[c].model # calls[d].model
          /\ models[calls[c].model] # models[calls[d].model]

\* The request has ended with a result or a failure for the caller.
Ended ==
    /\ pc = "done"
    /\ entry = "solve" => solve_phase = "returned"
    /\ entry = "calc" => outcome.kind \in {"return", "raise"}

\* C19: every request terminates. The solver is called at most once in a
\* request; once it has been called it is never called again (no retry),
\* whatever it answered; and every request eventually ends with a result or a
\* failure for the caller and stays ended.
C19_Terminates ==
    /\ [](solver_calls <= 1)
    /\ [][solver_calls >= 1 => solver_calls' = solver_calls]_vars
    /\ <>[]Ended

\* calculate_fair_division ended with "No solution found" after the one
\* solver call hit its time limit.
C19_Witness ==
    /\ entry = "calc"
    /\ pc = "done"
    /\ solver_calls = 1
    /\ status = "UNKNOWN"
    /\ outcome.kind = "raise"

\* C20: share range. In every returned allocation each fraction of a divisible
\* item is k / scale for an integer k with 0 <= k <= scale, so it lies between
\* 0 and 1, and each indicator of an indivisible item is 0 or 1.
C20_ShareRange ==
    Returned =>
        \A i \in 1..Len(ret.allocation) :
            /\ \A j \in 1..num_divisible(divisible_matrix) :
                  /\ ret.allocation[i]["divisible"][j][2] = scale
                  /\ ret.allocation[i]["divisible"][j][1] \in Int
                  /\ 0 <= ret.allocation[i]["divisible"][j][1]
                  /\ ret.allocation[i]["divisible"][j][1] <= scale
                  /\ RatLeq(<<0, 1>>, ret.allocation[i]["divisible"][j])
                  /\ RatLeq(ret.allocation[i]["divisible"][j], <<1, 1>>)
            /\ \A j \in 1..num_indivisible(indivisible_matrix) :
                  ret.allocation[i]["indivisible"][j] \in {0, 1}

\* An allocation was returned in which one person holds an indivisible item
\* and a share of a divisible item strictly between nothing and all of it.
C20_Witness ==
    /\ Returned
    /\ num_divisible(divisible_matrix) >= 1
    /\ num_indivisible(indivisible_matrix) >= 1
    /\ \E i \in 1..Len(ret.allocation) :
          /\ ret.allocation[i]["indivisible"][1] = 1
          /\ ret.allocation[i]["divisible"][1][1] > 0
          /\ ret.allocation[i]["divisible"][1][1] < scale

\* The matrix with the valuation of item j by person a replaced by v.
Raised(m, a, j, v) == [m EXCEPT ![a][j] = v]

\* The valuations larger than v that a caller may pass instead of v.
LargerVals(v) == {w \in SolveVals \cup CalcVals : w > v}

\* a's satisfaction, computed as the routine does from the solver values s,
\* for the matrices as passed.
SatisfactionOf(I, D, sc, s, a) == received_value(IntMatrix(I), IntMatrix(D), sc, s, a)

\* The inputs that differ from the one passed by a larger valuation, by
\* person a, of one item that a wholly receives in the returned solution:
\* pairs <<indivisible matrix, divisible matrix>>.
RaisedInputs(a) ==
    {<<Raised(arg_indivisible, a, j, w), arg_divisible>> :
        j \in {k \in 1..num_indivisible(indivisible_matrix) : solution.y[k][a] = 1},
        w \in SolveVals \cup CalcVals} \cup
    {<<arg_indivisible, Raised(arg_divisible, a, j, w)>> :
        j \in {k \in 1..num_divisible(divisible_matrix) : solution.x[k][a] = scale},
        w \in SolveVals \cup CalcVals}

\* Those of them in which the valuation really is larger.
LargerInputs(a) ==
    {in2 \in RaisedInputs(a) :
        \/ \E j \in 1..num_indivisible(indivisible_matrix) :
              in2[1][a][j] > arg_indivisible[a][j]
        \/ \E j \in 1..num_divisible(divisible_matrix) :
              in2[2][a][j] > arg_divisible[a][j]}

\* C21 as stated: monotonicity. When an allocation was returned with status
\* OPTIMAL and person a wholly receives item j in it, then for every input
\* that differs only by a larger valuation of j by a, and whichever optimal
\* solution the solver returns for that input, the satisfaction computed for
\* a is not lower than the one computed in the returned allocation.
C21_Monotonicity ==
    (Returned /\ status = "OPTIMAL") =>
        \A a \in 1..Len(ret.allocation) : \A in2 \in LargerInputs(a) :
            \A s2 \in Optimal(IntMatrix(in2[1]), IntMatrix(in2[2]), scale) :
                RatLeq(SatisfactionOf(arg_indivisible, arg_divisible, scale, solution, a),
                       SatisfactionOf(in2[1], in2[2], scale, s2, a))

\* C21 amended: monotonicity of the computed satisfaction. When an allocation
\* was returned and person a wholly receives item j in it, then for every
\* input that differs only by a larger valuation of j by a, the satisfaction
\* the routine computes for a from that same allocation is not lower than
\* before.  (The solver may return another allocation for the new input.)
C21_SameAllocation ==
    Returned =>
        \A a \in 1..Len(ret.allocation) : \A in2 \in LargerInputs(a) :
            RatLeq(SatisfactionOf(arg_indivisible, arg_divisible, scale, solution, a),
                   SatisfactionOf(in2[1], in2[2], scale, solution, a))

\* An optimal allocation was returned in which a person wholly receives an
\* item; with a larger valuation of it the same allocation gives the person
\* strictly more, yet some optimal solution of the new input gives less.
C21_Witness ==
    /\ Returned
    /\ status = "OPTIMAL"
    /\ \E a \in 1..Len(ret.allocation) : \E in2 \in LargerInputs(a) :
          /\ ~RatLeq(SatisfactionOf(in2[1], in2[2], scale, solution, a),
                     SatisfactionOf(arg_indivisible, arg_divisible, scale, solution, a))
          /\ \E s2 \in Optimal(IntMatrix(in2[1]), IntMatrix(in2[2]), scale) :
                ~RatLeq(SatisfactionOf(arg_indivisible, arg_divisible, scale, solution, a),
                        SatisfactionOf(in2[1], in2[2], scale, s2, a))

\* calculate_fair_division has returned a result.
Succeeded == entry = "calc" /\ pc = "done" /\ outcome.kind = "return"

\* The person's entry of the result lists an indivisible item or a divisible
\* item (which the conversion lists only with a fraction above 0).
HoldsSomething(person) ==
    \/ DOMAIN outcome.result.allocations[person].indivisible # {}
    \/ \E n \in DOMAIN outcome.result.allocations[person].divisible :
          outcome.result.allocations[person].divisible[n][1] > 0

\* C22 as stated: nobody leaves empty-handed. In every result that
\* calculate_fair_division returns, every person's allocation contains an
\* indivisible item or a divisible item with a non-zero fraction.
C22_NobodyEmptyHanded ==
    Succeeded => \A person \in Range(people) : HoldsSomething(person)

\* C22 amended: in every result that calculate_fair_division returns with a
\* worst_satisfaction above 0, every person's allocation contains an
\* indivisible item or a divisible item with a non-zero fraction.
C22_NobodyEmptyHandedAboveZero ==
    (Succeeded /\ outcome.result.worst_satisfaction[1] > 0) =>
        \A person \in Range(people) : HoldsSomething(person)

\* A result with worst_satisfaction above 0 was returned for two people, one
\* of whom holds nothing but less than half of a divisible item.
C22_Witness ==
    /\ Succeeded
    /\ outcome.result.worst_satisfaction[1] > 0
    /\ Len(people) = 2
    /\ \E person \in Range(people) :
          /\ DOMAIN outcome.result.allocations[person].indivisible = {}
          /\ \E n \in DOMAIN outcome.result.allocations[person].divisible :
                2 * outcome.result.allocations[person].divisible[n][1]
                    < outcome.result.allocations[person].divisible[n][2]

\* The call is the one of test_break_up_scenario.
BreakUp == items = BreakUpItems /\ people = BreakUpPeople /\ valuations = BreakUpValuations

\* C23: break-up scenario. When calculate_fair_division has ended for the
\* input of test_break_up_scenario and the solver answered OPTIMAL, then,
\* whichever optimal solution it chose, a result was returned, Cash is listed
\* with a non-zero fraction in the divisible allocation of at least one
\* person, and worst_satisfaction is at least 50.
C23_BreakUpScenario ==
    (entry = "calc" /\ pc = "done" /\ status = "OPTIMAL" /\ BreakUp) =>
        /\ outcome.kind = "return"
        /\ \E person \in {"Alex", "Bob"} :
              /\ "Cash" \in DOMAIN outcome.result.allocations[person].divisible
              /\ outcome.result.allocations[person].divisible["Cash"][1] > 0
        /\ RatLeq(<<50, 1>>, outcome.result.worst_satisfaction)

\* The call for the break-up scenario has ended with an optimal result.
C23_Witness ==
    /\ entry = "calc"
    /\ pc = "done"
    /\ status = "OPTIMAL"
    /\ BreakUp
    /\ outcome.kind = "return"
    /\ num_indivisible(indivisible_matrix) = 7

\* The position of item number k of the request among the items of its kind,
\* which is its column in the matrix of that kind.
ColumnOf(k) == Cardinality({q \in 1..k : items[q].is_divisible = items[k].is_divisible})

\* The people under whose entry of the given kind the item name is listed.
ListedUnder(kind, name) ==
    {person \in DOMAIN outcome.result.allocations :
        name \in DOMAIN outcome.result.allocations[person][kind]}

\* C24: name mapping. In a successful result of calculate_fair_division
\* (person names and item names pairwise distinct) 'allocations' has exactly
\* one entry per person and lists only names of items; an item name is in a
\* person's 'indivisible' entry iff the item is indivisible and the solver
\* set that person's indicator for it to 1; it is in the person's 'divisible'
\* entry, with fraction f, iff the item is divisible and the person's share f
\* is greater than 0; each indivisible item name is under exactly one person
\* and the listed fractions of each divisible item sum to 1.
C24_NameMapping ==
    Succeeded =>
        LET res == outcome.result.allocations
            names == {items[k].name : k \in 1..Len(items)}
        IN  /\ DOMAIN res = Range(people)
            /\ Cardinality(DOMAIN res) = Len(people)
            /\ \A i \in 1..Len(people) :
                  /\ DOMAIN res[people[i]] = {"indivisible", "divisible"}
                  /\ DOMAIN res[people[i]].indivisible \subseteq names
                  /\ DOMAIN res[people[i]].divisible \subseteq names
                  /\ \A k \in 1..Len(items) :
                        /\ items[k].name \in DOMAIN res[people[i]].indivisible
                              <=> (/\ ~items[k].is_divisible
                                   /\ solution.y[ColumnOf(k)][i] = 1)
                        /\ items[k].name \in DOMAIN res[people[i]].divisible
                              <=> (/\ items[k].is_divisible
                                   /\ solution.x[ColumnOf(k)][i] > 0)
                        /\ items[k].name \in DOMAIN res[people[i]].divisible
                              => res[people[i]].divisible[items[k].name]
                                    = <<solution.x[ColumnOf(k)][i], scale>>
            /\ \A k \in 1..Len(items) :
                  IF items[k].is_divisible
                  THEN LET under == ListedUnder("divisible", items[k].name)
                           listed == [i \in 1..Len(people) |->
                                         IF people[i] \in under
                                         THEN res[people[i]].divisible[items[k].name][1]
                                         ELSE 0]
                       IN  SumTo(listed, Len(people)) = scale
                  ELSE Cardinality(ListedUnder("indivisible", items[k].name)) = 1

\* A successful result that lists an indivisible item for one person and
\* shares a divisible item between two.
C24_Witness ==
    /\ Succeeded
    /\ \E k \in 1..Len(items) :
          /\ ~items[k].is_divisible
          /\ ListedUnder("indivisible", items[k].name) # {}
    /\ \E k \in 1..Len(items) :
          /\ items[k].is_divisible
          /\ Cardinality(ListedUnder("divisible", items[k].name)) = 2

\* C25: objective versus report. Whenever solve_fair_division_mixed returns an
\* allocation, the reported worst_satisfaction is not below the value of the
\* model's worst_satisfaction variable in the returned solution, and with
\* status OPTIMAL it is less than that value plus one.
C25_ObjectiveVersusReport ==
    Returned =>
        \A obj \in WorstValues(indivisible_matrix, divisible_matrix, scale, solution, status) :
            /\ RatLeq(<<obj, 1>>, ret.worst_satisfaction)
            /\ status = "OPTIMAL" =>
                  ret.worst_satisfaction[1] < (obj + 1) * ret.worst_satisfaction[2]

\* Every entry of the converted matrices is at least 0.
NonNegative(m) == \A i \in 1..Len(m) : \A j \in 1..Len(m[i]) : m[i][j] >= 0

\* The same comparison for the calls whose valuations are all at least 0.
C25_NonNegativeValuations ==
    (NonNegative(indivisible_matrix) /\ NonNegative(divisible_matrix)) =>
        C25_ObjectiveVersusReport

\* An OPTIMAL return whose report lies strictly between the objective and the
\* objective plus one: a divisible contribution was rounded down.
C25_RoundedDown ==
    /\ Returned
    /\ status = "OPTIMAL"
    /\ NonNegative(indivisible_matrix) /\ NonNegative(divisible_matrix)
    /\ \E obj \in WorstValues(indivisible_matrix, divisible_matrix, scale, solution, status) :
          obj * ret.worst_satisfaction[2] < ret.worst_satisfaction[1]
=============================================================================
